---- MODULE Spec2Model ----
(***************************************************************************)
(* Model of the translation backend (src/app.py): the /api/translate       *)
(* resolution pipeline and the /api/contribute ingestion workflow, run by  *)
(* concurrent request handlers against one shared Firestore database.      *)
(*                                                                         *)
(* Strings are sequences of one-character strings, so that lower() and     *)
(* strip() are computed and not assumed.                                   *)
(***************************************************************************)
EXTENDS Integers, Sequences, FiniteSets, TLC

VARIABLES
    contributions,   \* collection 'contributions': document id -> document
    language_pairs,  \* collection 'language_pairs': dict_key -> aggregate document
    translations,    \* subcollections language_pairs/<key>/translations: <<key, id>> -> document
    pc,              \* per handler thread: where its current request stands
    req,             \* per handler thread: the locals of the request it is serving
    nextId,          \* number of contribution ids issued so far (uuid4 never repeats)
    arrived,         \* number of contribute requests received so far
    last,            \* the request and response of the handler that has just returned
    late             \* dict_keys for which a contribute request arrived after the aggregate existed

vars == <<contributions, language_pairs, translations, pc, req, nextId, arrived, last, late>>

store == <<contributions, language_pairs, translations>>

----------------------------------------------------------------------------
(* Bounds of the model *)

\* handler threads serving requests concurrently
NumThreads == 2

\* contribute requests received
MaxRequests == 2

Threads == 1..NumThreads

----------------------------------------------------------------------------
(* str.lower() and str.strip() *)

UpperCase == <<"A", "B", "C", "D", "E", "F", "G", "H", "I", "J", "K", "L", "M",
               "N", "O", "P", "Q", "R", "S", "T", "U", "V", "W", "X", "Y", "Z">>

LowerCase == <<"a", "b", "c", "d", "e", "f", "g", "h", "i", "j", "k", "l", "m",
               "n", "o", "p", "q", "r", "s", "t", "u", "v", "w", "x", "y", "z">>

LowerChar(c) ==
    IF \E i \in 1..26 : UpperCase[i] = c
    THEN LowerCase[CHOOSE i \in 1..26 : UpperCase[i] = c]
    ELSE c

Lower(s) == [i \in 1..Len(s) |-> LowerChar(s[i])]

IsSpace(c) == c \in {" ", "\t", "\n", "\r"}

RECURSIVE LStrip(_)
LStrip(s) == IF s # <<>> /\ IsSpace(Head(s)) THEN LStrip(Tail(s)) ELSE s

RECURSIVE RStrip(_)
RStrip(s) ==
    IF s # <<>> /\ IsSpace(s[Len(s)]) THEN RStrip(SubSeq(s, 1, Len(s) - 1)) ELSE s

Strip(s) == RStrip(LStrip(s))

\* f"{source_lang}-{target_lang}"
DictKey(source_lang, target_lang) == source_lang \o <<"-">> \o target_lang

----------------------------------------------------------------------------
(* The static dictionary (module combined_dictionaries, imported by app.py) *)

En == <<"e", "n">>
Fr == <<"f", "r">>
Hello == <<"h", "e", "l", "l", "o">>
Helm == <<"h", "e", "l", "m">>
Cat == <<"c", "a", "t">>
Bonjour == <<"b", "o", "n", "j", "o", "u", "r">>

\* "en-fr" is a bucket with entries (one of them with an empty target phrase),
\* "fr-en" is a bucket without entries, every other pair has no bucket.
TEMPORARY_DICTIONARIES ==
    (DictKey(En, Fr) :> (Hello :> Bonjour @@ Helm :> <<>>))
    @@ (DictKey(Fr, En) :> <<>>)

----------------------------------------------------------------------------
(* Firestore *)

\* DocumentReference.set(data): create or overwrite the whole document
DocSet(coll, id, data) ==
    [x \in (DOMAIN coll) \cup {id} |-> IF x = id THEN data ELSE coll[x]]

\* DocumentReference.get().exists
DocExists(coll, id) == id \in DOMAIN coll

\* collection('contributions').where(source_text ==).where(source_language ==)
\*   .where(target_language ==).where(status ==): the matching documents
Query(source_text, source_language, target_language, status) ==
    {id \in DOMAIN contributions :
        /\ contributions[id].source_text = source_text
        /\ contributions[id].source_language = source_language
        /\ contributions[id].target_language = target_language
        /\ contributions[id].status = status}

----------------------------------------------------------------------------
(* Request bodies the callers send *)

PaddedEn == <<" ", "E", "N">>
PaddedCat == <<" ", "C", "a", "t">>
PaddedHelm == <<"H", "e", "l", "m", " ">>
PaddedChat == <<"C", "h", "a", "t", " ">>
Minou == <<"m", "i", "n", "o", "u">>
Blank == <<" ">>
PaddedExample == <<" ", "e", ".", "g", ".", " ">>

ContributeBody(source_text, target_text, source_language, target_language, example) ==
    [source_text |-> source_text, target_text |-> target_text,
     source_language |-> source_language, target_language |-> target_language,
     source_example |-> example, target_example |-> <<>>]

\* Bodies of POST /api/contribute: for the pair with a filled bucket a new source
\* text (with two target texts) and two source texts of the bucket; a new source
\* text for the pair with an empty bucket and for a pair without bucket; and one
\* body for each required field left blank.
ContributeBodies ==
    { ContributeBody(PaddedCat, PaddedChat, PaddedEn, Fr, <<>>),
      ContributeBody(PaddedCat, Minou, PaddedEn, Fr, <<>>),
      ContributeBody(Hello, PaddedChat, PaddedEn, Fr, <<>>),
      ContributeBody(PaddedHelm, PaddedChat, PaddedEn, Fr, <<>>),
      ContributeBody(PaddedCat, PaddedChat, Fr, PaddedEn, PaddedExample),
      ContributeBody(PaddedCat, PaddedChat, PaddedEn, PaddedEn, <<>>),
      ContributeBody(Blank, PaddedChat, PaddedEn, Fr, <<>>),
      ContributeBody(PaddedCat, Blank, PaddedEn, Fr, <<>>),
      ContributeBody(PaddedCat, PaddedChat, Blank, Fr, <<>>),
      ContributeBody(PaddedCat, PaddedChat, PaddedEn, <<>>, <<>>) }

----------------------------------------------------------------------------
(* Python values *)

\* an optional value: <<>> is None, <<v>> is the value v
None == <<>>
Some(v) == <<v>>

\* truth value of `x` for x None or a string: None and '' are false
Truthy(opt) == opt # None /\ opt[1] # <<>>

NoRequest == [op |-> "none"]
NoExchange == [thread |-> 0]

\* the handler of thread w returns `response` for the request with locals r
Return(w, r, response) ==
    /\ last = NoExchange
    /\ last' = [thread |-> w, request |-> r, response |-> response]
    /\ pc' = [pc EXCEPT ![w] = "ready"]
    /\ req' = [req EXCEPT ![w] = NoRequest]

\* the handler of thread w goes on to the statement `label` with locals r
Goto(w, r, label) ==
    /\ last = NoExchange
    /\ pc' = [pc EXCEPT ![w] = label]
    /\ req' = [req EXCEPT ![w] = r]
    /\ UNCHANGED last

----------------------------------------------------------------------------
(* contribute(): POST /api/contribute *)

\* lines 149-156 and 166: the normalized fields of the request
ContributeLocals(data) ==
    LET source_language == Strip(Lower(data.source_language))
        target_language == Strip(Lower(data.target_language))
    IN [op |-> "contribute",
        source_text |-> Lower(Strip(data.source_text)),
        target_text |-> Strip(data.target_text),
        source_language |-> source_language,
        target_language |-> target_language,
        source_example |-> Strip(data.source_example),
        target_example |-> Strip(data.target_example),
        dict_key |-> DictKey(source_language, target_language),
        contribution_id |-> 0,
        timestamp |-> 0]

\* the locals of the contribute requests the callers send
ContributeRequests == { ContributeLocals(data) : data \in ContributeBodies }

\* ValidateContribution without the test of target_text
ValidateContributionSourceOnly(r) ==
    IF r.source_text = <<>>
    THEN Some([code |-> 400, error |-> "Source text and target text are required"])
    ELSE IF r.source_language = <<>> \/ r.target_language = <<>>
    THEN Some([code |-> 400,
               error |-> "Source language and target language are required"])
    ELSE None

\* lines 159-163: the response of the validation, None when the fields are valid
ValidateContribution(r) ==
    IF r.source_text = <<>> \/ r.target_text = <<>>
    THEN Some([code |-> 400, error |-> "Source text and target text are required"])
    ELSE IF r.source_language = <<>> \/ r.target_language = <<>>
    THEN Some([code |-> 400,
               error |-> "Source language and target language are required"])
    ELSE None

\* lines 169-174: existing_translation after the look-up in TEMPORARY_DICTIONARIES
DictionaryTranslation(r) ==
    IF r.dict_key \in DOMAIN TEMPORARY_DICTIONARIES
    THEN IF r.source_text \in DOMAIN TEMPORARY_DICTIONARIES[r.dict_key]
         THEN Some(TEMPORARY_DICTIONARIES[r.dict_key][r.source_text])
         ELSE None
    ELSE None

\* lines 188-193
DuplicateResponse(existing_translation) ==
    [code |-> 409, error |-> "This translation already exists",
     existing_translation |-> existing_translation, status |-> "duplicate"]

\* lines 256-258
InternalError(message) ==
    [code |-> 500, error |-> "Internal server error", message |-> message]

\* lines 200-213
Contribution(r) ==
    [id |-> r.contribution_id,
     source_text |-> r.source_text,
     target_text |-> r.target_text,
     source_language |-> r.source_language,
     target_language |-> r.target_language,
     source_example |-> r.source_example,
     target_example |-> r.target_example,
     status |-> "pending",
     created_at |-> r.timestamp,
     updated_at |-> r.timestamp,
     votes |-> 0,
     reviewed |-> FALSE]

\* NewLanguagePair counting the contribution that creates the aggregate
NewLanguagePairCounted(r) ==
    [source_language |-> r.source_language,
     target_language |-> r.target_language,
     total_contributions |-> 1,
     pending_contributions |-> 1,
     validated_contributions |-> 0,
     last_updated |-> r.timestamp]

\* lines 225-232
NewLanguagePair(r) ==
    [source_language |-> r.source_language,
     target_language |-> r.target_language,
     total_contributions |-> 0,
     pending_contributions |-> 0,
     validated_contributions |-> 0,
     last_updated |-> r.timestamp]

\* IncrementCounters adding to pending_contributions only
IncrementCountersPendingOnly(doc, r) ==
    [doc EXCEPT !.pending_contributions = @ + 1,
                !.last_updated = r.timestamp]

\* lines 235-239: update() with firestore.Increment(1), which the server applies
\* to the document as it stands
IncrementCounters(doc, r) ==
    [doc EXCEPT !.total_contributions = @ + 1,
                !.pending_contributions = @ + 1,
                !.last_updated = r.timestamp]

\* lines 248-254
SuccessResponse(r) ==
    [code |-> 201, success |-> TRUE, contribution_id |-> r.contribution_id,
     status |-> "pending", language_pair |-> r.dict_key]

\* lines 141-174 and 188-193: parse, normalize, validate, look the source text up
\* in the static dictionary
ContributeBegin(w) ==
    /\ pc[w] = "ready"
    /\ arrived < MaxRequests
    /\ arrived' = arrived + 1
    /\ \E r \in ContributeRequests :
           IF ValidateContribution(r) # None
           THEN Return(w, r, ValidateContribution(r)[1]) /\ UNCHANGED late
           ELSE IF Truthy(DictionaryTranslation(r))
           THEN Return(w, r, DuplicateResponse(DictionaryTranslation(r)[1]))
                /\ UNCHANGED late
           ELSE /\ Goto(w, r, "query")
                /\ late' = IF DocExists(language_pairs, r.dict_key)
                           THEN late \cup {r.dict_key} ELSE late
    /\ UNCHANGED <<store, nextId>>

\* NewContribution issuing the same id to every request
NewContributionSameId(w) ==
    /\ nextId' = nextId + 1
    /\ Goto(w, [req[w] EXCEPT !.contribution_id = 1,
                              !.timestamp = nextId + 1], "save")

\* lines 196-197: uuid.uuid4() and datetime.now()
NewContribution(w) ==
    /\ nextId' = nextId + 1
    /\ Goto(w, [req[w] EXCEPT !.contribution_id = nextId + 1,
                              !.timestamp = nextId + 1], "save")

\* ContributeQuery answering 409 with the target text of the request
ContributeQueryEcho(w) ==
    /\ pc[w] = "query"
    /\ LET r == req[w]
           approved_translation ==
               Query(r.source_text, r.source_language, r.target_language, "validated")
       IN IF approved_translation # {}
          THEN /\ Return(w, r, DuplicateResponse(r.target_text))
               /\ UNCHANGED nextId
          ELSE NewContribution(w)
    /\ UNCHANGED <<store, arrived, late>>

\* ContributeQuery without the filter on the status
ContributeQueryAnyStatus(w) ==
    /\ pc[w] = "query"
    /\ LET r == req[w]
           approved_translation ==
               Query(r.source_text, r.source_language, r.target_language, "validated")
               \cup Query(r.source_text, r.source_language, r.target_language, "pending")
       IN IF approved_translation # {}
          THEN \E id \in approved_translation :
                 /\ Return(w, r, DuplicateResponse(contributions[id].target_text))
                 /\ UNCHANGED nextId
          ELSE NewContribution(w)
    /\ UNCHANGED <<store, arrived, late>>

\* lines 177-197: the query for a validated contribution, then either the
\* duplicate response or a new id and timestamp
ContributeQuery(w) ==
    /\ pc[w] = "query"
    /\ LET r == req[w]
           approved_translation ==
               Query(r.source_text, r.source_language, r.target_language, "validated")
       IN IF approved_translation # {}
          THEN \E id \in approved_translation :   \* limit(1)
                 IF Truthy(Some(contributions[id].target_text))
                 THEN /\ Return(w, r, DuplicateResponse(contributions[id].target_text))
                      /\ UNCHANGED nextId
                 ELSE NewContribution(w)
          ELSE NewContribution(w)
    /\ UNCHANGED <<store, arrived, late>>

\* ContributeSave writing the copy in the subcollection where the primary
\* record is due
ContributeSaveCopyFirst(w) ==
    /\ pc[w] = "save"
    /\ translations' =
           DocSet(translations, <<req[w].dict_key, req[w].contribution_id>>,
                  Contribution(req[w]))
    /\ Goto(w, req[w], "exists")
    /\ UNCHANGED <<contributions, language_pairs, nextId, arrived, late>>

\* line 218
ContributeSave(w) ==
    /\ pc[w] = "save"
    /\ contributions' =
           DocSet(contributions, req[w].contribution_id, Contribution(req[w]))
    /\ Goto(w, req[w], "exists")
    /\ UNCHANGED <<language_pairs, translations, nextId, arrived, late>>

\* ContributeGetPair taking the aggregate for missing whatever the store holds
ContributeGetPairMissing(w) ==
    /\ pc[w] = "exists"
    /\ Goto(w, req[w], "init")
    /\ UNCHANGED <<store, nextId, arrived, late>>

\* lines 221-224: lang_pair_ref.get().exists
ContributeGetPair(w) ==
    /\ pc[w] = "exists"
    /\ IF DocExists(language_pairs, req[w].dict_key)
       THEN Goto(w, req[w], "update")
       ELSE Goto(w, req[w], "init")
    /\ UNCHANGED <<store, nextId, arrived, late>>

\* lines 225-232: lang_pair_ref.set({... counters 0 ...})
ContributeInitPair(w) ==
    /\ pc[w] = "init"
    /\ language_pairs' =
           DocSet(language_pairs, req[w].dict_key, NewLanguagePair(req[w]))
    /\ Goto(w, req[w], "update")
    /\ UNCHANGED <<contributions, translations, nextId, arrived, late>>

\* lines 235-239: lang_pair_ref.update(...); update() of a missing document raises
ContributeUpdate(w) ==
    /\ pc[w] = "update"
    /\ IF DocExists(language_pairs, req[w].dict_key)
       THEN /\ language_pairs' =
                   DocSet(language_pairs, req[w].dict_key,
                          IncrementCounters(language_pairs[req[w].dict_key], req[w]))
            /\ Goto(w, req[w], "copy")
       ELSE /\ Return(w, req[w], InternalError("update"))
            /\ UNCHANGED language_pairs
    /\ UNCHANGED <<contributions, translations, nextId, arrived, late>>

\* ContributeCopy writing the copy with an updated_at of its own
ContributeCopyRestamped(w) ==
    /\ pc[w] = "copy"
    /\ translations' =
           DocSet(translations, <<req[w].dict_key, req[w].contribution_id>>,
                  [Contribution(req[w]) EXCEPT !.updated_at = @ + 1])
    /\ Return(w, req[w], SuccessResponse(req[w]))
    /\ UNCHANGED <<contributions, language_pairs, nextId, arrived, late>>

\* lines 242-254: the copy in the pair's translations subcollection, then 201
ContributeCopy(w) ==
    /\ pc[w] = "copy"
    /\ translations' =
           DocSet(translations, <<req[w].dict_key, req[w].contribution_id>>,
                  Contribution(req[w]))
    /\ Return(w, req[w], SuccessResponse(req[w]))
    /\ UNCHANGED <<contributions, language_pairs, nextId, arrived, late>>

\* the statements of contribute() that call the database
StoreCalls == {"query", "save", "exists", "init", "update", "copy"}

\* ContributeFail deleting the primary record of the request
ContributeFailRollback(w) ==
    /\ pc[w] \in StoreCalls
    /\ Return(w, req[w], InternalError(pc[w]))
    /\ contributions' =
           [id \in DOMAIN contributions \ {req[w].contribution_id} |-> contributions[id]]
    /\ UNCHANGED <<language_pairs, translations, nextId, arrived, late>>

\* lines 256-258: a call to the database raises; the handler answers 500
ContributeFail(w) ==
    /\ pc[w] \in StoreCalls
    /\ Return(w, req[w], InternalError(pc[w]))
    /\ UNCHANGED <<store, nextId, arrived, late>>

----------------------------------------------------------------------------
(* translate(): POST /api/translate *)

TranslateBody(sourceLang, targetLang, text) ==
    [sourceLang |-> sourceLang, targetLang |-> targetLang, text |-> text]

MixedHello == <<"H", "e", "L", "L", "o", " ">>

\* Bodies of POST /api/translate: the text or a language left blank, a pair
\* without bucket, and for the filled and the empty bucket a text that is not a
\* key; for the filled bucket also texts that are keys.
TranslateBodies ==
    { TranslateBody(PaddedEn, Fr, Blank),
      TranslateBody(Blank, Fr, Hello),
      TranslateBody(PaddedEn, <<>>, Hello),
      TranslateBody(PaddedEn, PaddedEn, PaddedCat),
      TranslateBody(PaddedEn, Fr, MixedHello),
      TranslateBody(PaddedEn, Fr, PaddedHelm),
      TranslateBody(PaddedEn, Fr, PaddedCat),
      TranslateBody(Fr, PaddedEn, PaddedCat) }

\* line 94: the score from which a fuzzy match is accepted
FuzzyThreshold == 70

\* Scores process.extractOne may give the best match (fuzzywuzzy scores lie in
\* 0..100): the lowest, the highest and the two around the threshold.
FuzzyScores == {0, 69, 70, 100}

\* TranslateLocals without lower() on the text
TranslateLocalsNoLower(data) ==
    LET source_lang == Strip(Lower(data.sourceLang))
        target_lang == Strip(Lower(data.targetLang))
    IN [op |-> "translate",
        source_lang |-> source_lang,
        target_lang |-> target_lang,
        text |-> Strip(data.text),
        dict_key |-> DictKey(source_lang, target_lang),
        fuzzy |-> None]

\* lines 56-58 and 68: the normalized fields of the request; `fuzzy` is the
\* result of process.extractOne (line 91), None as long as it was not called
TranslateLocals(data) ==
    LET source_lang == Strip(Lower(data.sourceLang))
        target_lang == Strip(Lower(data.targetLang))
    IN [op |-> "translate",
        source_lang |-> source_lang,
        target_lang |-> target_lang,
        text |-> Strip(Lower(data.text)),
        dict_key |-> DictKey(source_lang, target_lang),
        fuzzy |-> None]

\* the locals of the translate requests the callers send
TranslateRequests == { TranslateLocals(data) : data \in TranslateBodies }

\* lines 61-65: the response of the validation, None when the fields are valid
ValidateTranslation(r) ==
    IF r.text = <<>>
    THEN Some([code |-> 400, error |-> "No text provided for translation"])
    ELSE IF r.source_lang = <<>> \/ r.target_lang = <<>>
    THEN Some([code |-> 400, error |-> "Source or target language not specified"])
    ELSE None

\* lines 71-75
NotSupportedResponse(r) ==
    [code |-> 404,
     translation |-> <<"Translation between ", r.source_lang, " and ", r.target_lang,
                       " is not currently supported">>,
     matchType |-> "none",
     supportedPairs |-> DOMAIN TEMPORARY_DICTIONARIES]

\* lines 81-87
ExactResponse(r, dictionary) ==
    [code |-> 200, originalText |-> r.text, translation |-> dictionary[r.text],
     matchType |-> "exact", sourceLang |-> r.source_lang, targetLang |-> r.target_lang]

\* line 91: process.extractOne(text, dictionary.keys()) gives one of the keys and
\* its score
ExtractOne(dictionary) ==
    { [best_match |-> k, score |-> n] : k \in DOMAIN dictionary, n \in FuzzyScores }

\* FuzzyAccepted with > for >=
FuzzyAcceptedStrict(score) == score > FuzzyThreshold

\* line 94
FuzzyAccepted(score) == score >= FuzzyThreshold

\* lines 95-103
FuzzyResponse(r, dictionary) ==
    [code |-> 200, originalText |-> r.text,
     translation |-> dictionary[r.fuzzy[1].best_match],
     matchType |-> "fuzzy", fuzzyMatchScore |-> r.fuzzy[1].score,
     matchedWord |-> r.fuzzy[1].best_match,
     sourceLang |-> r.source_lang, targetLang |-> r.target_lang]

\* lines 114-122
PendingResponse(r, pending_data) ==
    [code |-> 200, originalText |-> r.text, translation |-> pending_data.target_text,
     matchType |-> "pending",
     note |-> "This is a pending contribution awaiting review",
     sourceLang |-> r.source_lang, targetLang |-> r.target_lang]

\* lines 125-132
NoMatchResponse(r) ==
    [code |-> 404, originalText |-> r.text,
     translation |-> <<"No translation found for '", r.text, "'">>,
     matchType |-> "none", sourceLang |-> r.source_lang, targetLang |-> r.target_lang,
     suggestion |-> "Consider contributing a translation"]

\* The operators below give the set of <<locals, response>> with which the
\* handler may end.

\* lines 105-132: the query for a pending contribution, which may raise (134-136)
PendingTier(r) ==
    LET pending_translation == Query(r.text, r.source_lang, r.target_lang, "pending")
    IN { <<r, InternalError("query")>> }
       \cup (IF pending_translation # {}
             THEN { <<r, PendingResponse(r, contributions[id])>> :
                        id \in pending_translation }   \* limit(1)
             ELSE { <<r, NoMatchResponse(r)>> })

\* FuzzyTier with a pending contribution preferred to the fuzzy match
FuzzyTierStoreFirst(r, dictionary) ==
    IF DOMAIN dictionary # {}
    THEN UNION { LET rf == [r EXCEPT !.fuzzy = Some(m)]
                 IN IF Query(r.text, r.source_lang, r.target_lang, "pending") # {}
                    THEN PendingTier(rf)
                    ELSE IF FuzzyAccepted(m.score)
                    THEN { <<rf, FuzzyResponse(rf, dictionary)>> }
                    ELSE PendingTier(rf) :
                 m \in ExtractOne(dictionary) }
    ELSE PendingTier(r)

\* lines 89-103, then 105-132 when the bucket is empty or the score too low
FuzzyTier(r, dictionary) ==
    IF DOMAIN dictionary # {}
    THEN UNION { LET rf == [r EXCEPT !.fuzzy = Some(m)]
                 IN IF FuzzyAccepted(m.score)
                    THEN { <<rf, FuzzyResponse(rf, dictionary)>> }
                    ELSE PendingTier(rf) :
                 m \in ExtractOne(dictionary) }
    ELSE PendingTier(r)

\* ExactTier with the fuzzy match tried before the exact look-up
ExactTierAfterFuzzy(r, dictionary) ==
    IF DOMAIN dictionary # {}
    THEN UNION { LET rf == [r EXCEPT !.fuzzy = Some(m)]
                 IN IF FuzzyAccepted(m.score)
                    THEN { <<rf, FuzzyResponse(rf, dictionary)>> }
                    ELSE IF r.text \in DOMAIN dictionary
                    THEN { <<rf, ExactResponse(rf, dictionary)>> }
                    ELSE PendingTier(rf) :
                 m \in ExtractOne(dictionary) }
    ELSE PendingTier(r)

\* lines 77-87, then the later tiers
ExactTier(r, dictionary) ==
    IF r.text \in DOMAIN dictionary
    THEN { <<r, ExactResponse(r, dictionary)>> }
    ELSE FuzzyTier(r, dictionary)

\* TranslateOutcomes with the store asked before the pair is looked up
TranslateOutcomesStoreFirst(r) ==
    IF ValidateTranslation(r) # None
    THEN { <<r, ValidateTranslation(r)[1]>> }
    ELSE IF r.dict_key \notin DOMAIN TEMPORARY_DICTIONARIES
    THEN { <<r, InternalError("query")>> }
         \cup (IF Query(r.text, r.source_lang, r.target_lang, "pending") # {}
               THEN PendingTier(r)
               ELSE { <<r, NotSupportedResponse(r)>> })
    ELSE ExactTier(r, TEMPORARY_DICTIONARIES[r.dict_key])

\* TranslateOutcomes taking a pair without bucket for one with an empty bucket
TranslateOutcomesNoBucketAsEmpty(r) ==
    IF ValidateTranslation(r) # None
    THEN { <<r, ValidateTranslation(r)[1]>> }
    ELSE IF r.dict_key \notin DOMAIN TEMPORARY_DICTIONARIES
    THEN PendingTier(r)
    ELSE ExactTier(r, TEMPORARY_DICTIONARIES[r.dict_key])

\* lines 60-132
TranslateOutcomes(r) ==
    IF ValidateTranslation(r) # None
    THEN { <<r, ValidateTranslation(r)[1]>> }
    ELSE IF r.dict_key \notin DOMAIN TEMPORARY_DICTIONARIES
    THEN { <<r, NotSupportedResponse(r)>> }
    ELSE ExactTier(r, TEMPORARY_DICTIONARIES[r.dict_key])

\* Translate adding a vote to the pending contributions it answers with
TranslateVoting(w) ==
    /\ pc[w] = "ready"
    /\ \E r \in TranslateRequests :
         \E outcome \in TranslateOutcomes(r) :
           /\ Return(w, outcome[1], outcome[2])
           /\ contributions' =
                  [id \in DOMAIN contributions |->
                      IF /\ "matchType" \in DOMAIN outcome[2]
                         /\ outcome[2].matchType = "pending"
                         /\ id \in Query(r.text, r.source_lang, r.target_lang, "pending")
                      THEN [contributions[id] EXCEPT !.votes = @ + 1]
                      ELSE contributions[id]]
    /\ UNCHANGED <<language_pairs, translations, nextId, arrived, late>>

\* lines 50-136
Translate(w) ==
    /\ pc[w] = "ready"
    /\ \E r \in TranslateRequests :
         \E outcome \in TranslateOutcomes(r) : Return(w, outcome[1], outcome[2])
    /\ UNCHANGED <<store, nextId, arrived, late>>

----------------------------------------------------------------------------
(* The review process outside this program: it marks a pending contribution *)
(* validated.                                                              *)

Review ==
    /\ last = NoExchange
    /\ \E id \in DOMAIN contributions :
         /\ contributions[id].status = "pending"
         /\ contributions' = [contributions EXCEPT ![id].status = "validated"]
    /\ UNCHANGED <<language_pairs, translations, pc, req, nextId, arrived, last, late>>

\* The response reaches the caller. The handlers and the review wait for that
\* (Return, Goto, Review): `last` is there for the properties to read, and the
\* database and the handlers go through the same states with or without it.
Deliver ==
    /\ last # NoExchange
    /\ last' = NoExchange
    /\ UNCHANGED <<store, pc, req, nextId, arrived, late>>

----------------------------------------------------------------------------

Init ==
    /\ contributions = <<>>
    /\ language_pairs = <<>>
    /\ translations = <<>>
    /\ pc = [w \in Threads |-> "ready"]
    /\ req = [w \in Threads |-> NoRequest]
    /\ nextId = 0
    /\ arrived = 0
    /\ last = NoExchange
    /\ late = {}

Next ==
    \/ \E w \in Threads : ContributeBegin(w)
    \/ \E w \in Threads : ContributeQuery(w)
    \/ \E w \in Threads : ContributeSave(w)
    \/ \E w \in Threads : ContributeGetPair(w)
    \/ \E w \in Threads : ContributeInitPair(w)
    \/ \E w \in Threads : ContributeUpdate(w)
    \/ \E w \in Threads : ContributeCopy(w)
    \/ \E w \in Threads : ContributeFail(w)
    \/ \E w \in Threads : Translate(w)
    \/ Review
    \/ Deliver

Spec == Init /\ [][Next]_vars

----------------------------------------------------------------------------
(* The requests served one at a time, with no call to the database raising *)

\* no other handler than that of thread w is serving a request
Alone(w) == \A v \in Threads \ {w} : pc[v] = "ready"

SeqContributeBegin(w) == Alone(w) /\ ContributeBegin(w)
SeqContributeQuery(w) == Alone(w) /\ ContributeQuery(w)
SeqContributeSave(w) == Alone(w) /\ ContributeSave(w)
SeqContributeGetPair(w) == Alone(w) /\ ContributeGetPair(w)
SeqContributeInitPair(w) == Alone(w) /\ ContributeInitPair(w)
SeqContributeUpdate(w) == Alone(w) /\ ContributeUpdate(w)
SeqContributeCopy(w) == Alone(w) /\ ContributeCopy(w)
SeqTranslate(w) == Alone(w) /\ Translate(w)

SeqNext ==
    \/ \E w \in Threads : SeqContributeBegin(w)
    \/ \E w \in Threads : SeqContributeQuery(w)
    \/ \E w \in Threads : SeqContributeSave(w)
    \/ \E w \in Threads : SeqContributeGetPair(w)
    \/ \E w \in Threads : SeqContributeInitPair(w)
    \/ \E w \in Threads : SeqContributeUpdate(w)
    \/ \E w \in Threads : SeqContributeCopy(w)
    \/ \E w \in Threads : SeqTranslate(w)
    \/ Review
    \/ Deliver

SeqSpec == Init /\ [][SeqNext]_vars

----------------------------------------------------------------------------
(* The program on its own: the concurrent handlers without the review *)

CoreNext ==
    \/ \E w \in Threads : ContributeBegin(w)
    \/ \E w \in Threads : ContributeQuery(w)
    \/ \E w \in Threads : ContributeSave(w)
    \/ \E w \in Threads : ContributeGetPair(w)
    \/ \E w \in Threads : ContributeInitPair(w)
    \/ \E w \in Threads : ContributeUpdate(w)
    \/ \E w \in Threads : ContributeCopy(w)
    \/ \E w \in Threads : ContributeFail(w)
    \/ \E w \in Threads : Translate(w)
    \/ Deliver

CoreSpec == Init /\ [][CoreNext]_vars

----------------------------------------------------------------------------
(* Vocabulary of the properties *)

\* the dict_key of a stored contribution
PairOf(doc) == DictKey(doc.source_language, doc.target_language)

\* ids of the contributions of pair k in the primary collection
PairContributions(k) ==
    {id \in DOMAIN contributions : PairOf(contributions[id]) = k}

\* ids of the copies in the translations subcollection of pair k
PairCopies(k) == {x[2] : x \in {y \in DOMAIN translations : y[1] = k}}

\* threads serving a contribute request for pair k
InFlight(k) == {w \in Threads : pc[w] # "ready" /\ req[w].dict_key = k}

\* a handler has just returned, to a contribute / translate request
Returned == last # NoExchange
ReturnedContribute == Returned /\ last.request.op = "contribute"
ReturnedTranslate == Returned /\ last.request.op = "translate"

\* this step is the return of a handler
Returns == last' # NoExchange /\ last = NoExchange

\* this step is a step of the handler of thread w
StepOf(w) == pc'[w] # pc[w] \/ req'[w] # req[w] \/ (Returns /\ last'.thread = w)

----------------------------------------------------------------------------
(* C1: N concurrent first contributions to a pair without aggregate, all    *)
(* successful: once all have returned there is one aggregate for the pair   *)
(* and its total_contributions is N.                                        *)
(* Stated for every pair k: when no request for k is in flight, no request  *)
(* for k arrived after the aggregate existed, and every contribution of k   *)
(* has its copy (its request went through), the aggregate counts them all.  *)
C1_CounterCorrect ==
    \A id \in DOMAIN contributions :
        LET k == PairOf(contributions[id]) IN
          (/\ InFlight(k) = {}
           /\ k \notin late
           /\ PairContributions(k) = PairCopies(k))
          => /\ DocExists(language_pairs, k)
             /\ language_pairs[k].total_contributions = Cardinality(PairContributions(k))

----------------------------------------------------------------------------
(* C2, as claimed: in every reachable state a copy with id X is in the      *)
(* translations subcollection of its pair if and only if a contribution     *)
(* with id X is in the primary collection.                                  *)
C2_CopyIffContribution ==
    /\ \A x \in DOMAIN translations : x[2] \in DOMAIN contributions
    /\ \A id \in DOMAIN contributions :
           <<PairOf(contributions[id]), id>> \in DOMAIN translations

(* C2, amended: in every reachable state a copy with id X exists only if    *)
(* the contribution with id X exists, and it lies in the subcollection of   *)
(* that contribution's pair; a contribution has its copy once its request   *)
(* has returned 201.                                                        *)
C2_CopyOnlyIfContribution ==
    /\ \A x \in DOMAIN translations :
           /\ x[2] \in DOMAIN contributions
           /\ x[1] = PairOf(contributions[x[2]])
    /\ (ReturnedContribute /\ last.response.code = 201)
           => /\ last.response.contribution_id \in DOMAIN contributions
              /\ <<last.request.dict_key, last.response.contribution_id>>
                     \in DOMAIN translations

\* a request has returned 201 and its contribution and copy are stored
C2_Witness ==
    /\ ReturnedContribute
    /\ last.response.code = 201
    /\ last.response.contribution_id \in DOMAIN contributions
    /\ \E x \in DOMAIN translations : x[2] = last.response.contribution_id

----------------------------------------------------------------------------
(* C3: a translate request whose normalized text is a key of the bucket of  *)
(* its pair is answered 200 with matchType exact and the bucket's value for *)
(* that key, whatever the store holds; never fuzzy, never pending.          *)
C3_ExactPrecedence ==
    (/\ ReturnedTranslate
     /\ last.request.dict_key \in DOMAIN TEMPORARY_DICTIONARIES
     /\ last.request.text \in DOMAIN TEMPORARY_DICTIONARIES[last.request.dict_key])
    => /\ last.response.code = 200
       /\ last.response.matchType = "exact"
       /\ last.response.translation =
              TEMPORARY_DICTIONARIES[last.request.dict_key][last.request.text]
       /\ last.request.fuzzy = None

\* an exact answer for a key while the store holds a pending contribution for
\* the same text and pair
C3_Witness ==
    /\ ReturnedTranslate
    /\ last.response.code = 200
    /\ last.response.matchType = "exact"
    /\ Query(last.request.text, last.request.source_lang, last.request.target_lang,
             "pending") # {}

----------------------------------------------------------------------------
(* C4: a translate request for a bucket with entries, whose normalized text *)
(* is not a key, is answered fuzzy if and only if the score of the best     *)
(* match is at least 70; then the translation is that of the matched key.   *)
(* With a score of 69 or less the answer is that of the pending tier.       *)
C4_ThresholdBoundary ==
    (/\ ReturnedTranslate
     /\ last.request.text # <<>>
     /\ last.request.dict_key \in DOMAIN TEMPORARY_DICTIONARIES
     /\ DOMAIN TEMPORARY_DICTIONARIES[last.request.dict_key] # {}
     /\ last.request.text \notin DOMAIN TEMPORARY_DICTIONARIES[last.request.dict_key])
    => LET dictionary == TEMPORARY_DICTIONARIES[last.request.dict_key]
           response == last.response
           isFuzzy == response.code = 200 /\ response.matchType = "fuzzy"
       IN /\ last.request.fuzzy # None
          /\ isFuzzy <=> last.request.fuzzy[1].score >= 70
          /\ isFuzzy =>
               /\ response.matchedWord = last.request.fuzzy[1].best_match
               /\ response.fuzzyMatchScore = last.request.fuzzy[1].score
               /\ response.translation = dictionary[response.matchedWord]
          /\ ~isFuzzy =>
               \/ response.code = 500
               \/ response.code = 200 /\ response.matchType = "pending"
               \/ response.code = 404 /\ response.matchType = "none"

\* a score of exactly 70 answered fuzzy
C4_Witness ==
    /\ ReturnedTranslate
    /\ last.request.fuzzy # None
    /\ last.request.fuzzy[1].score = 70
    /\ last.response.code = 200
    /\ last.response.matchType = "fuzzy"

----------------------------------------------------------------------------
\* the source text of a contribute request or of a stored contribution is a key
\* of the static bucket of its pair
InDictionary(source_text, dict_key) ==
    /\ dict_key \in DOMAIN TEMPORARY_DICTIONARIES
    /\ source_text \in DOMAIN TEMPORARY_DICTIONARIES[dict_key]

\* the validated contributions the query of thread w's contribute request matches
ValidatedMatches(w) ==
    {id \in DOMAIN contributions :
        /\ contributions[id].source_text = req[w].source_text
        /\ contributions[id].source_language = req[w].source_language
        /\ contributions[id].target_language = req[w].target_language
        /\ contributions[id].status = "validated"}

\* the pending contributions with the source text and pair of thread w's request
PendingMatches(w) ==
    {id \in DOMAIN contributions :
        /\ contributions[id].source_text = req[w].source_text
        /\ contributions[id].source_language = req[w].source_language
        /\ contributions[id].target_language = req[w].target_language
        /\ contributions[id].status = "pending"}

\* this step is thread w's handler answering 500
Raises(w) == Returns /\ last'.thread = w /\ last'.response.code = 500

(* C5: a contribute request with valid fields whose normalized source text  *)
(* is a key of the static bucket of its pair is rejected as a duplicate,    *)
(* whatever the key maps to, and nothing is written: no contribution or    *)
(* copy with such a source text is stored, and the answer to such a request *)
(* (when the handler does not answer 500) is 409.                           *)
C5_DictionaryDuplicate ==
    /\ \A id \in DOMAIN contributions :
           ~InDictionary(contributions[id].source_text, PairOf(contributions[id]))
    /\ \A x \in DOMAIN translations :
           ~InDictionary(translations[x].source_text, x[1])
    /\ (ReturnedContribute
        /\ ValidateContribution(last.request) = None
        /\ InDictionary(last.request.source_text, last.request.dict_key)
        /\ last.response.code # 500)
           => last.response.code = 409

----------------------------------------------------------------------------
(* C6: a contribute request with valid fields that finds a validated        *)
(* contribution with its source text and pair when it queries the store     *)
(* (and whose query does not raise) is answered 409 with the target text of *)
(* such a contribution; no step of the request up to there changes the      *)
(* store.                                                                   *)
C6_ValidatedDuplicate ==
    [][\A w \in Threads :
         /\ (pc[w] \in {"ready", "query"} /\ StepOf(w)) => store' = store
         /\ (pc[w] = "query" /\ StepOf(w) /\ ~Raises(w) /\ ValidatedMatches(w) # {})
                => /\ Returns
                   /\ last'.thread = w
                   /\ last'.request = req[w]
                   /\ last'.response.code = 409
                   /\ \E id \in ValidatedMatches(w) :
                          last'.response.existing_translation
                              = contributions[id].target_text]_vars

\* a request answered 409 with the target text of a validated contribution,
\* which is not the target text the request proposed
C6_Witness ==
    /\ ReturnedContribute
    /\ last.response.code = 409
    /\ ~InDictionary(last.request.source_text, last.request.dict_key)
    /\ last.response.existing_translation # last.request.target_text
    /\ \E id \in DOMAIN contributions :
           /\ contributions[id].status = "validated"
           /\ contributions[id].source_text = last.request.source_text
           /\ PairOf(contributions[id]) = last.request.dict_key
           /\ contributions[id].target_text = last.response.existing_translation

----------------------------------------------------------------------------
(* C7: a contribute request that matches no dictionary entry and no         *)
(* validated contribution is not rejected because a pending contribution    *)
(* with its source text and pair exists: unless a store call raises, it     *)
(* gets an id no stored contribution has, stores a new pending contribution *)
(* under it, adds 1 to both counters of the pair and is answered 201. A 409 *)
(* is only ever answered for a dictionary entry or a validated              *)
(* contribution.                                                            *)
C7_PendingNotDuplicate ==
    [][\A w \in Threads :
         (StepOf(w) /\ ~Raises(w)) =>
           /\ (pc[w] = "query" /\ PendingMatches(w) # {} /\ ValidatedMatches(w) = {})
                  => /\ pc'[w] = "save"
                     /\ req'[w].contribution_id \notin DOMAIN contributions
                     /\ \A v \in Threads \ {w} :
                            (pc[v] # "ready" /\ req[v].op = "contribute")
                                => req[v].contribution_id # req'[w].contribution_id
           /\ (Returns /\ last'.response.code = 409 /\ pc[w] = "query")
                  => ValidatedMatches(w) # {}
           /\ pc[w] = "save"
                  => /\ req[w].contribution_id \notin DOMAIN contributions
                     /\ DOMAIN contributions'
                            = DOMAIN contributions \cup {req[w].contribution_id}
                     /\ contributions'[req[w].contribution_id].status = "pending"
                     /\ \A id \in DOMAIN contributions :
                            contributions'[id] = contributions[id]
                     /\ pc'[w] = "exists"
           /\ pc[w] = "exists" => pc'[w] \in {"init", "update"}
           /\ pc[w] = "init" => pc'[w] = "update"
           /\ pc[w] = "update"
                  => /\ language_pairs'[req[w].dict_key].total_contributions
                            = language_pairs[req[w].dict_key].total_contributions + 1
                     /\ language_pairs'[req[w].dict_key].pending_contributions
                            = language_pairs[req[w].dict_key].pending_contributions + 1
                     /\ pc'[w] = "copy"
           /\ pc[w] = "copy"
                  => /\ Returns
                     /\ last'.response.code = 201
                     /\ last'.response.contribution_id = req[w].contribution_id]_vars

\* a second request for a source text and pair has been answered 201 while the
\* first contribution is still pending; both are stored and counted
C7_Witness ==
    /\ ReturnedContribute
    /\ last.response.code = 201
    /\ \E id \in DOMAIN contributions :
           /\ id # last.response.contribution_id
           /\ contributions[id].status = "pending"
           /\ contributions[id].source_text = last.request.source_text
           /\ PairOf(contributions[id]) = last.request.dict_key
    /\ language_pairs[last.request.dict_key].total_contributions = 2
    /\ language_pairs[last.request.dict_key].pending_contributions = 2

----------------------------------------------------------------------------
\* the statements of contribute() from the first write on
WriteSteps == {"save", "exists", "init", "update", "copy"}

\* the contribution of thread w's request is stored as the request built it (the
\* review may have validated it since)
OwnContributionStored(w) ==
    /\ req[w].contribution_id \in DOMAIN contributions'
    /\ [contributions'[req[w].contribution_id] EXCEPT !.status = "pending"]
           = Contribution(req[w])

(* C8: when a store call raises in one of the write steps of contribute     *)
(* (primary record, aggregate look-up and creation, counters, copy), the    *)
(* handler answers 500, the step changes nothing in the store (no           *)
(* roll-back), the request ends there (no retry), and the primary record    *)
(* the request wrote before is still stored, as is the aggregate once the   *)
(* request has seen or created it.                                          *)
C8_NoRollback ==
    [][\A w \in Threads :
         (pc[w] \in WriteSteps /\ Raises(w))
            => /\ store' = store
               /\ pc'[w] = "ready"
               /\ req'[w] = NoRequest
               /\ last'.request = req[w]
               /\ pc[w] # "save" => OwnContributionStored(w)
               /\ pc[w] \in {"update", "copy"}
                      => DocExists(language_pairs', req[w].dict_key)]_vars

\* a request answered 500 when writing the copy: its contribution is stored and
\* counted, its copy is not there
C8_Witness ==
    /\ ReturnedContribute
    /\ last.response.code = 500
    /\ last.response.message = "copy"
    /\ last.request.contribution_id \in DOMAIN contributions
    /\ <<last.request.dict_key, last.request.contribution_id>> \notin DOMAIN translations
    /\ language_pairs[last.request.dict_key].total_contributions >= 1

----------------------------------------------------------------------------
\* one of the four required fields of the contribute locals r is empty
MissingField(r) ==
    \/ r.source_text = <<>>
    \/ r.target_text = <<>>
    \/ r.source_language = <<>>
    \/ r.target_language = <<>>

(* C9: a contribute request with sourceText, targetText, sourceLanguage or  *)
(* targetLanguage empty after normalization is answered 400 in the first    *)
(* step of the handler, with the store as it was; no handler goes on with   *)
(* such a request.                                                          *)
C9_ValidationBeforeWrite ==
    [][/\ \A w \in Threads :
            (pc'[w] # "ready" /\ req'[w].op = "contribute") => ~MissingField(req'[w])
       /\ (Returns /\ last'.request.op = "contribute" /\ MissingField(last'.request))
            => /\ last'.response.code = 400
               /\ pc[last'.thread] = "ready"
               /\ store' = store]_vars

\* a request with an empty field answered 400 while the store holds documents
C9_Witness ==
    /\ ReturnedContribute
    /\ MissingField(last.request)
    /\ last.response.code = 400
    /\ DOMAIN contributions # {}

----------------------------------------------------------------------------
(* C10: a translate request with non-empty text and languages whose bucket  *)
(* key is not in the dictionary is answered with the not-supported result,  *)
(* which lists all bucket keys, whatever the store holds; it is never       *)
(* answered 500.                                                            *)
C10_NotSupported ==
    (/\ ReturnedTranslate
     /\ last.request.text # <<>>
     /\ last.request.source_lang # <<>>
     /\ last.request.target_lang # <<>>
     /\ last.request.dict_key \notin DOMAIN TEMPORARY_DICTIONARIES)
    => /\ last.response.code = 404
       /\ last.response.matchType = "none"
       /\ "supportedPairs" \in DOMAIN last.response
       /\ last.response.supportedPairs = DOMAIN TEMPORARY_DICTIONARIES
       /\ last.request.fuzzy = None

\* the not-supported answer while the store holds a pending contribution for the
\* text and pair of the request
C10_Witness ==
    /\ ReturnedTranslate
    /\ last.request.dict_key \notin DOMAIN TEMPORARY_DICTIONARIES
    /\ last.response.code = 404
    /\ "supportedPairs" \in DOMAIN last.response
    /\ Query(last.request.text, last.request.source_lang, last.request.target_lang,
             "pending") # {}

----------------------------------------------------------------------------
(* C11: no translate request, whatever its answer, changes a document of    *)
(* the store (the dictionary is a constant of the program); the step in     *)
(* which a translate handler runs leaves the collections and the handlers   *)
(* of the other requests as they were, so every change of the store is the  *)
(* step of a contribute request or of the review.                           *)
C11_ResolveReadOnly ==
    [][(Returns /\ last'.request.op = "translate")
          => /\ contributions' = contributions
             /\ language_pairs' = language_pairs
             /\ translations' = translations
             /\ pc' = pc
             /\ req' = req
             /\ nextId' = nextId]_vars

\* a translate request answered from the store while a contribute request is
\* between its writes
C11_Witness ==
    /\ ReturnedTranslate
    /\ last.response.code = 200
    /\ last.response.matchType = "pending"
    /\ \E w \in Threads : pc[w] \in WriteSteps

----------------------------------------------------------------------------
(* C12: in every reachable state every aggregate has                        *)
(* total_contributions >= pending_contributions >= 0 and                    *)
(* validated_contributions = 0, under every interleaving of the contribute  *)
(* requests.                                                                *)
C12_CounterOrder ==
    \A k \in DOMAIN language_pairs :
        /\ language_pairs[k].total_contributions >= language_pairs[k].pending_contributions
        /\ language_pairs[k].pending_contributions >= 0
        /\ language_pairs[k].validated_contributions = 0

\* two requests raced on the creation of the aggregate and both have gone
\* through: the aggregate was reset after an increment and incremented again
C12_Witness ==
    \E k \in DOMAIN language_pairs :
        /\ InFlight(k) = {}
        /\ Cardinality(PairCopies(k)) = 2
        /\ language_pairs[k].total_contributions = 1
        /\ language_pairs[k].pending_contributions = 1

----------------------------------------------------------------------------
UpperChar(c) ==
    IF \E i \in 1..26 : LowerCase[i] = c
    THEN UpperCase[CHOOSE i \in 1..26 : LowerCase[i] = c]
    ELSE c

Upper(s) == [i \in 1..Len(s) |-> UpperChar(s[i])]

\* s with its first character in upper case
Capitalized(s) == [i \in 1..Len(s) |-> IF i = 1 THEN UpperChar(s[i]) ELSE s[i]]

\* s in other letter case, or with white space before or after it
StringVariants(s) ==
    { s, Upper(s), Capitalized(s),
      <<" ">> \o s, s \o <<"\t">>, <<"\n", " ">> \o Upper(s) \o <<"\r">> }

\* the body with its three fields trimmed and in lower case
NormalizedBody(data) ==
    TranslateBody(Strip(Lower(data.sourceLang)), Strip(Lower(data.targetLang)),
                  Strip(Lower(data.text)))

\* the translate bodies the callers send and the variants of their normalized
\* forms, in each field independently
BodyVariants ==
    TranslateBodies
    \cup UNION { { TranslateBody(sourceLang, targetLang, text) :
                     sourceLang \in StringVariants(NormalizedBody(data).sourceLang),
                     targetLang \in StringVariants(NormalizedBody(data).targetLang),
                     text \in StringVariants(NormalizedBody(data).text) } :
                 data \in TranslateBodies }

\* for each variant: the locals translate() computes for it, and those it
\* computes for its normalized form
NormalizationPairs ==
    { <<TranslateLocals(data), TranslateLocals(NormalizedBody(data))>> :
          data \in BodyVariants }

\* the locals of the bodies the callers send that are not in normalized form
RawRequests ==
    { TranslateLocals(data) : data \in {d \in TranslateBodies : d # NormalizedBody(d)} }

(* C13: a translate request whose fields differ from their normalized form  *)
(* (trimmed, lower case) in letter case or in leading and trailing white    *)
(* space has, against the same dictionary and store, the outcomes of the    *)
(* request in normalized form (same status, matchType, translation, and     *)
(* every other field of the answer); the answer a handler has just given is *)
(* an answer to the normalized form of its request.                         *)
C13_NormalizationIdempotent ==
    /\ \A p \in NormalizationPairs : TranslateOutcomes(p[1]) = TranslateOutcomes(p[2])
    /\ ReturnedTranslate
          => \A p \in NormalizationPairs :
                p[1] = [last.request EXCEPT !.fuzzy = None]
                   => <<last.request, last.response>> \in TranslateOutcomes(p[2])

\* a body in mixed case with white space answered with a pending contribution
\* stored under the normalized text and languages
C13_Witness ==
    /\ ReturnedTranslate
    /\ [last.request EXCEPT !.fuzzy = None] \in RawRequests
    /\ last.response.code = 200
    /\ last.response.matchType = "pending"
    /\ \E id \in DOMAIN contributions :
           /\ contributions[id].source_text = last.request.text
           /\ contributions[id].target_text = last.response.translation

----------------------------------------------------------------------------
\* the answer is the pending tier's hit
IsPending(response) ==
    /\ response.code = 200
    /\ response.matchType = "pending"

\* the translate request with locals r passed the validation, its pair has a
\* bucket, its text is not a key of it, and the fuzzy tier missed: the bucket is
\* empty (the matcher was not called) or the best score is below 70
FuzzyMissed(r) ==
    /\ ValidateTranslation(r) = None
    /\ r.dict_key \in DOMAIN TEMPORARY_DICTIONARIES
    /\ r.text \notin DOMAIN TEMPORARY_DICTIONARIES[r.dict_key]
    /\ IF DOMAIN TEMPORARY_DICTIONARIES[r.dict_key] = {}
       THEN r.fuzzy = None
       ELSE r.fuzzy # None /\ r.fuzzy[1].score < 70

(* C14: a translate request is answered matchType pending only when its     *)
(* pair has a bucket, its text is not a key and the fuzzy tier missed. In   *)
(* that situation (and the store query not raising) the answer is pending   *)
(* with the target text of a stored pending contribution of the same text   *)
(* and languages when there is one, and 404 with matchType none when there  *)
(* is none. When the best score is 70 or more the answer is fuzzy, whatever *)
(* pending contributions the store holds.                                   *)
C14_PendingTier ==
    ReturnedTranslate =>
      LET r == last.request
          response == last.response
          pending_translation == Query(r.text, r.source_lang, r.target_lang, "pending")
      IN /\ IsPending(response) => FuzzyMissed(r)
         /\ (FuzzyMissed(r) /\ response.code # 500) =>
               IF pending_translation # {}
               THEN /\ IsPending(response)
                    /\ \E id \in pending_translation :
                           response.translation = contributions[id].target_text
               ELSE response = NoMatchResponse(r)
         /\ (r.fuzzy # None /\ r.fuzzy[1].score >= 70) =>
               /\ response.code = 200
               /\ response.matchType = "fuzzy"

\* a pending answer after a best score of 69, with two pending contributions of
\* that text and pair in the store
C14_Witness ==
    /\ ReturnedTranslate
    /\ IsPending(last.response)
    /\ last.request.fuzzy # None
    /\ last.request.fuzzy[1].score = 69
    /\ Cardinality(Query(last.request.text, last.request.source_lang,
                         last.request.target_lang, "pending")) = 2

----------------------------------------------------------------------------
\* this step is a step of a translate or contribute handler
HandlerStep == \E w \in Threads : StepOf(w)

\* a contribution record as contribute() creates it
FreshRecord(doc, id) ==
    /\ doc.id = id
    /\ doc.status = "pending"
    /\ doc.votes = 0
    /\ doc.reviewed = FALSE
    /\ doc.updated_at = doc.created_at

(* C15: every record a handler step adds to the primary collection (and     *)
(* every copy it adds to a translations subcollection) has status pending,  *)
(* votes 0, reviewed false and updated_at equal to created_at; and no step  *)
(* of a translate or contribute handler, successful or failing, sequential  *)
(* or concurrent, changes or removes a contribution that is in the primary  *)
(* collection.                                                              *)
C15_WriteOnce ==
    [][HandlerStep
         => /\ \A id \in DOMAIN contributions :
                   /\ id \in DOMAIN contributions'
                   /\ contributions'[id] = contributions[id]
            /\ \A id \in DOMAIN contributions' \ DOMAIN contributions :
                   FreshRecord(contributions'[id], id)
            /\ \A x \in DOMAIN translations' \ DOMAIN translations :
                   FreshRecord(translations'[x], x[2])]_vars

\* a second contribution of a source text and pair has been accepted with another
\* target text; the first is stored as it was written
C15_Witness ==
    /\ ReturnedContribute
    /\ last.response.code = 201
    /\ \E id \in DOMAIN contributions :
           /\ id # last.response.contribution_id
           /\ FreshRecord(contributions[id], id)
           /\ contributions[id].source_text = last.request.source_text
           /\ PairOf(contributions[id]) = last.request.dict_key
           /\ contributions[id].target_text # last.request.target_text
           /\ contributions[id].created_at < last.request.timestamp

----------------------------------------------------------------------------
\* no handler is serving a request
Quiescent == \A w \in Threads : pc[w] = "ready"

\* the dict_keys the store knows
StoredPairs ==
    DOMAIN language_pairs
    \cup { PairOf(contributions[id]) : id \in DOMAIN contributions }
    \cup { x[1] : x \in DOMAIN translations }

\* the aggregate of pair k counts the contributions of k, and so do the copies
PairConsistent(k) ==
    /\ DocExists(language_pairs, k)
    /\ language_pairs[k].total_contributions = Cardinality(PairContributions(k))
    /\ language_pairs[k].pending_contributions = Cardinality(PairContributions(k))
    /\ Cardinality(PairCopies(k)) = Cardinality(PairContributions(k))
    /\ PairContributions(k) # {}

\* what the step of a contribute handler at `label` adds to the counters of pair k
Added(w, k) == IF pc[w] = "update" /\ req[w].dict_key = k THEN 1 ELSE 0

(* C16: with the requests served one at a time on a store that starts       *)
(* empty, and no store call raising: whenever no request is being served,   *)
(* for every pair the store knows, total_contributions =                    *)
(* pending_contributions = the number of contributions of the pair in the   *)
(* primary collection = the number of copies in its subcollection; a        *)
(* contribute request adds to the counters of an aggregate only in its      *)
(* update step, 1 to each, and an accepted request goes through that step   *)
(* once; a request answered 400 or 409 leaves the store as it was.          *)
C16_SequentialCounters ==
    [][/\ Quiescent' => \A k \in StoredPairs' : PairConsistent(k)'
       /\ \A w \in Threads :
             (StepOf(w) /\ pc[w] # "ready") =>
                /\ \A k \in DOMAIN language_pairs :
                       /\ k \in DOMAIN language_pairs'
                       /\ language_pairs'[k].total_contributions
                              = language_pairs[k].total_contributions + Added(w, k)
                       /\ language_pairs'[k].pending_contributions
                              = language_pairs[k].pending_contributions + Added(w, k)
                /\ pc[w] = "update" => pc'[w] = "copy"
                /\ pc'[w] = "update" => pc[w] \in {"exists", "init"}
       /\ (Returns /\ last'.request.op = "contribute"
              /\ last'.response.code \in {400, 409})
             => store' = store /\ pc[last'.thread] \in {"ready", "query"}]_vars

\* the second contribution to a pair has been accepted: the aggregate the first
\* created counts 2, and two copies are stored
C16_Witness ==
    /\ Quiescent
    /\ ReturnedContribute
    /\ last.response.code = 201
    /\ language_pairs[last.request.dict_key].total_contributions = 2
    /\ PairConsistent(last.request.dict_key)

----------------------------------------------------------------------------
(* C17: in every state the concurrent contribute requests reach, with store *)
(* calls raising at any point, a copy with id X in the subcollection of a   *)
(* pair implies that the contribution with id X is in the primary           *)
(* collection with the same content, that it is of that pair, and that the  *)
(* aggregate of the pair exists. A copy is added only by the last store     *)
(* call of a request, answered 201 in the same step, when the primary       *)
(* record and the aggregate are already stored.                             *)
C17_CopyAfterPrimary ==
    [][/\ \A x \in DOMAIN translations' :
              /\ x[2] \in DOMAIN contributions'
              /\ contributions'[x[2]] = translations'[x]
              /\ PairOf(translations'[x]) = x[1]
              /\ DocExists(language_pairs', x[1])
       /\ \A x \in DOMAIN translations' \ DOMAIN translations :
              /\ x[2] \in DOMAIN contributions
              /\ DocExists(language_pairs, x[1])
              /\ Returns
              /\ last'.response.code = 201
              /\ last'.response.contribution_id = x[2]]_vars

\* one request has gone through and its copy equals its contribution; another
\* of the same pair was answered 500 when writing its copy, which is not there
C17_Witness ==
    /\ ReturnedContribute
    /\ last.response.code = 500
    /\ last.response.message = "copy"
    /\ <<last.request.dict_key, last.request.contribution_id>> \notin DOMAIN translations
    /\ \E x \in DOMAIN translations :
           /\ x[1] = last.request.dict_key
           /\ contributions[x[2]] = translations[x]

----------------------------------------------------------------------------
(* C18: starting from the empty store, in every reachable state, under      *)
(* every interleaving of the contribute requests (the race on the creation  *)
(* of the aggregate and store calls raising between the steps included),    *)
(* the total_contributions of an aggregate is at most the number of         *)
(* contributions of its pair in the primary collection.                     *)
C18_NeverOvercount ==
    \A k \in DOMAIN language_pairs :
        language_pairs[k].total_contributions <= Cardinality(PairContributions(k))

\* a request was answered 500 when adding to the counters: its contribution is
\* stored and the aggregate counts fewer contributions than the pair has
C18_Witness ==
    /\ ReturnedContribute
    /\ last.response.code = 500
    /\ last.response.message = "update"
    /\ last.request.contribution_id \in DOMAIN contributions
    /\ DocExists(language_pairs, last.request.dict_key)
    /\ language_pairs[last.request.dict_key].total_contributions
           < Cardinality(PairContributions(last.request.dict_key))

----------------------------------------------------------------------------
\* the pair of the request with locals r has no bucket in the dictionary
NoBucket(r) == r.dict_key \notin DOMAIN TEMPORARY_DICTIONARIES

(* C19: for a pair without bucket in the dictionary a contribute request    *)
(* with valid fields is accepted like any other (answered 201 with its      *)
(* pending contribution, its copy and the aggregate stored, unless a        *)
(* validated contribution makes it a duplicate or a store call raises),     *)
(* but a translate request never reaches the pending tier: it is answered   *)
(* with the not-supported result, never with matchType pending, whatever    *)
(* pending contributions of its text and pair the store holds.              *)
C19_NoBucketNeverPending ==
    /\ ReturnedTranslate =>
          /\ IsPending(last.response) => ~NoBucket(last.request)
          /\ (NoBucket(last.request) /\ ValidateTranslation(last.request) = None)
                => last.response = NotSupportedResponse(last.request)
    /\ (ReturnedContribute /\ NoBucket(last.request) /\ ~MissingField(last.request)
          /\ last.response.code \notin {409, 500})
          => /\ last.response.code = 201
             /\ last.response.contribution_id \in DOMAIN contributions
             /\ PairOf(contributions[last.response.contribution_id])
                    = last.request.dict_key
             /\ <<last.request.dict_key, last.response.contribution_id>>
                    \in DOMAIN translations
             /\ DocExists(language_pairs, last.request.dict_key)

\* the not-supported answer for a text and pair of which a contribution was
\* accepted and is stored pending, with its copy and counted by the aggregate
C19_Witness ==
    /\ ReturnedTranslate
    /\ NoBucket(last.request)
    /\ last.response = NotSupportedResponse(last.request)
    /\ DocExists(language_pairs, last.request.dict_key)
    /\ \E id \in Query(last.request.text, last.request.source_lang,
                        last.request.target_lang, "pending") :
           <<last.request.dict_key, id>> \in DOMAIN translations

====
